---- MODULE Spec2Model ----
(***************************************************************************)
(* Asynchronous job pipeline of the onboarding-video service: intake       *)
(* (WebhookProcessor), the Redis job record store, the RQ work queue and   *)
(* the worker entry point generate_onboarding_video with the four content  *)
(* stages of VideoGenerator.generate_onboarding_video.                     *)
(***************************************************************************)
EXTENDS Integers, Sequences, FiniteSets, TLC

\* ---------------------------------------------------------------- bounds
MaxJobs == 1          \* job identifiers intake may hand out
MaxLines == 2         \* lines of a text-generation response
MaxClips == 2         \* entries of a script given to the narration stage
NumWorkers == 2       \* settings.WORKER_CONCURRENCY

Retention == 86400    \* redis_conn.expire(redis_key, 86400)

JobIds == 1..MaxJobs
Workers == 1..NumWorkers

\* ---------------------------------------------------------------- values
Absent == "<absent>"  \* field not present in the Redis hash
None == "<none>"      \* Python None
Ts == "ts"            \* datetime.now().isoformat()

Truthy(x) == x \notin {None, ""}

\* Redis TTL of a key: seconds left, Persist for a key without expiry,
\* NoKey for a key that does not exist
Persist == 0 - 1
NoKey == 0 - 2

\* time passes in steps of half the retention window
TickStep == Retention \div 2

\* employee names as character sequences
Names == { <<" ">>, <<"A", " ", "L">> }
EmployeeIds == {"E1"}

\* str(e) of the exceptions a collaborator call may raise
ExcTexts == {"", "io error"}
IndexErrorText == "list index out of range"
RedisErrorText == "redis unavailable"

Fields == {"job_id", "employee_id", "status", "created_at", "completed_at",
           "video_url", "error_message", "updated_at"}

NoRecord == [f \in Fields |-> Absent]

Terminal == {"completed", "failed"}

StageOrder == <<"script", "narration", "visual", "compose">>
Stages == {"script", "narration", "visual", "compose"}

\* ---------------------------------------------------------------- helpers
\* str.split() without arguments: split on runs of whitespace
RECURSIVE SplitFrom(_, _, _)
SplitFrom(s, cur, acc) ==
    IF s = <<>>
    THEN (IF cur = <<>> THEN acc ELSE Append(acc, cur))
    ELSE IF Head(s) = " "
         THEN SplitFrom(Tail(s), <<>>, IF cur = <<>> THEN acc ELSE Append(acc, cur))
         ELSE SplitFrom(Tail(s), Append(cur, Head(s)), acc)

Split(s) == SplitFrom(s, <<>>, <<>>)

\* video_url = f"/videos/{job_id}.mp4"
VideoUrl(j) == "/videos/" \o ToString(j) \o ".mp4"

IsSet(x) == x \notin {Absent, None, ""}

\* redis hset(key, mapping): merge the mapping into the hash
HSet(rec, updates) ==
    [f \in Fields |-> IF f \in DOMAIN updates THEN updates[f] ELSE rec[f]]

\* variant of Updates: the completed write leaves video_url out
Updates_NoUrl(status, video_url, error_message) ==
    LET base == [f \in {"status", "updated_at"} |->
                    IF f = "status" THEN status ELSE Ts]
        withDone == IF status = "completed"
                    THEN [f \in DOMAIN base \cup {"completed_at"} |->
                            IF f = "completed_at" THEN Ts ELSE base[f]]
                    ELSE base
    IN IF Truthy(error_message)
       THEN [f \in DOMAIN withDone \cup {"error_message"} |->
               IF f = "error_message" THEN error_message ELSE withDone[f]]
       ELSE withDone

\* the `updates` mapping built by _update_job_status
Updates(status, video_url, error_message) ==
    LET base == [f \in {"status", "updated_at"} |->
                    IF f = "status" THEN status ELSE Ts]
        withDone == IF status = "completed"
                    THEN IF Truthy(video_url)
                         THEN [f \in DOMAIN base \cup {"completed_at", "video_url"} |->
                                 IF f = "completed_at" THEN Ts
                                 ELSE IF f = "video_url" THEN video_url
                                 ELSE base[f]]
                         ELSE [f \in DOMAIN base \cup {"completed_at"} |->
                                 IF f = "completed_at" THEN Ts ELSE base[f]]
                    ELSE base
    IN IF Truthy(error_message)
       THEN [f \in DOMAIN withDone \cup {"error_message"} |->
               IF f = "error_message" THEN error_message ELSE withDone[f]]
       ELSE withDone

\* redis_data built by _store_job from VideoGenerationJob.model_dump()
StoreJobData(j, employee_id) ==
    [f \in Fields \ {"updated_at"} |->
        CASE f = "job_id" -> ToString(j)
          [] f = "employee_id" -> employee_id
          [] f = "status" -> "queued"
          [] f = "created_at" -> Ts
          [] OTHER -> ""]

\* the record of a job that intake created and one execution processed and
\* completed
OnceCompleted(j, employee_id) ==
    [f \in Fields |->
        CASE f = "job_id" -> ToString(j)
          [] f = "employee_id" -> employee_id
          [] f = "status" -> "completed"
          [] f = "video_url" -> VideoUrl(j)
          [] f = "error_message" -> ""
          [] OTHER -> Ts]

\* variant of MoveToOutput: the composed video stays in the work directory
MoveToOutput_Skip(art, j) == art

\* _compose_video, lines 339-342: slides.mp4 is renamed to OUTPUT_DIR/{job_id}.mp4
MoveToOutput(art, j) == [art EXCEPT ![j] = TRUE]

\* variant of NextStage: compose is started right after narration
NextStage_SkipVisual(s) ==
    CASE s = "script" -> "narration"
      [] s = "narration" -> "compose"
      [] s = "visual" -> "compose"
      [] s = "compose" -> "update_completed"

\* the step that follows a stage that returned
NextStage(s) ==
    CASE s = "script" -> "narration"
      [] s = "narration" -> "visual"
      [] s = "visual" -> "compose"
      [] s = "compose" -> "update_completed"

\* ---------------------------------------------------------------- state
VARIABLES
    store,        \* job record store: job id -> Redis hash "job:{job_id}"
    queue,        \* RQ queue 'video_generation': job ids waiting for a worker
    payload,      \* RQ job data: job id -> employee attributes of the descriptor
    artifact,     \* OUTPUT_DIR/{job_id}.mp4 exists
    nextId,       \* job identifiers handed out so far
    dequeued,     \* job ids whose descriptor was handed to a worker
    wk,           \* worker processes: position in generate_onboarding_video and locals
    ttl,          \* per job key: seconds to expiry, Persist or NoKey
    expired,      \* job ids whose record the store deleted on expiry
    response,     \* per job id: answer of the user-onboarding endpoint
    aws,          \* the serverless worker: position in generate_onboarding_video_aws
    opResult,     \* outcome of the last direct call of a store operation
    workdir,      \* job id -> TEMP_DIR/{job_id} exists on the worker's disk
    stg           \* the last direct call of a stage function: inputs and result

vars == <<store, queue, payload, artifact, nextId, dequeued, wk, ttl, expired,
          response, aws, opResult, workdir, stg>>

NoEmployee == [employee_id |-> None, name |-> <<>>]

IdleWorker ==
    [pc |-> "idle", job_id |-> 0, employee |-> NoEmployee, exc |-> None,
     video_path |-> None, stageLog |-> <<>>, termWrites |-> <<>>,
     failStage |-> "none", procWritten |-> FALSE, okNotified |-> 0,
     errNotified |-> 0, outcome |-> "none", notifiedUrl |-> None,
     before |-> "none"]

NoResponse == [status_code |-> 0, success |-> FALSE, job_id |-> None]

IdleAws ==
    [pc |-> "idle", job_id |-> 0, employee |-> NoEmployee, bound |-> FALSE,
     exc |-> None, failStage |-> "none", transport |-> "none",
     email_sent |-> "unset", fallbackLogged |-> FALSE,
     errTransport |-> "none", errSent |-> "none", outcome |-> "none",
     statusCode |-> 0]

NoCall == [op |-> "none"]

Init ==
    /\ store = [j \in JobIds |-> NoRecord]
    /\ queue = <<>>
    /\ payload = [j \in JobIds |-> NoEmployee]
    /\ artifact = [j \in JobIds |-> FALSE]
    /\ nextId = 0
    /\ dequeued = {}
    /\ wk = [w \in Workers |-> IdleWorker]
    /\ ttl = [j \in JobIds |-> NoKey]
    /\ expired = {}
    /\ response = [j \in JobIds |-> NoResponse]
    /\ aws = IdleAws
    /\ opResult = "none"
    /\ workdir = [j \in JobIds |-> FALSE]
    /\ stg = NoCall

Running(w) == wk[w].pc # "idle"

Exists(j) == store[j] # NoRecord

\* hset leaves the expiry of an existing key alone and creates a missing key
\* without expiry
TtlAfterHSet(j) == IF Exists(j) THEN ttl ELSE [ttl EXCEPT ![j] = Persist]

\* ---------------------------------------------------------------- intake
\* receive_user_onboarding_webhook: the answer built from the value returned
\* by process_user_onboarding_webhook (a job id, or None after an exception)
ReceiveUserOnboardingWebhook(returned) ==
    [status_code |-> 200, success |-> TRUE, job_id |-> returned]

\* variant of Intake: the descriptor is pushed before the record is stored
Intake_EnqueueFirst(employee, result) ==
    /\ nextId < MaxJobs
    /\ LET j == nextId + 1 IN
       /\ nextId' = j
       /\ store' = IF result = "store_raises" THEN store
                   ELSE [store EXCEPT ![j] = HSet(@, StoreJobData(j, employee.employee_id))]
       /\ ttl' = CASE result = "store_raises" -> ttl
                   [] result = "expire_raises" -> [ttl EXCEPT ![j] = Persist]
                   [] OTHER -> [ttl EXCEPT ![j] = Retention]
       /\ IF result # "enqueue_raises"
          THEN /\ queue' = Append(queue, j)
               /\ payload' = [payload EXCEPT ![j] = employee]
          ELSE UNCHANGED <<queue, payload>>
       /\ response' = [response EXCEPT ![j] =
               ReceiveUserOnboardingWebhook(IF result = "ok" THEN ToString(j) ELSE None)]
    /\ UNCHANGED <<artifact, dequeued, wk, expired, aws, opResult, workdir, stg>>

\* WebhookProcessor.process_user_onboarding_webhook: uuid4, _store_job (hset,
\* expire), enqueue; any exception is caught and None is returned
Intake(employee, result) ==
    /\ nextId < MaxJobs
    /\ LET j == nextId + 1 IN
       /\ nextId' = j
       /\ store' = IF result = "store_raises" THEN store
                   ELSE [store EXCEPT ![j] = HSet(@, StoreJobData(j, employee.employee_id))]
       /\ ttl' = CASE result = "store_raises" -> ttl
                   [] result = "expire_raises" -> [ttl EXCEPT ![j] = Persist]
                   [] OTHER -> [ttl EXCEPT ![j] = Retention]
       /\ IF result = "ok"
          THEN /\ queue' = Append(queue, j)
               /\ payload' = [payload EXCEPT ![j] = employee]
          ELSE UNCHANGED <<queue, payload>>
       /\ response' = [response EXCEPT ![j] =
               ReceiveUserOnboardingWebhook(IF result = "ok" THEN ToString(j) ELSE None)]
    /\ UNCHANGED <<artifact, dequeued, wk, expired, aws, opResult, workdir, stg>>

\* ---------------------------------------------------------------- queue
\* what the record of job j is when an execution starts: as intake wrote it,
\* as one successful execution left it, or anything else
RecordKind(j) ==
    IF store[j] = HSet(NoRecord, StoreJobData(j, payload[j].employee_id)) THEN "fresh"
    ELSE IF store[j] = OnceCompleted(j, payload[j].employee_id) THEN "completed_once"
    ELSE "other"

\* an RQ worker takes the next job of the queue and calls the job function
Dequeue(w) ==
    /\ ~Running(w)
    /\ queue # <<>>
    /\ LET j == Head(queue) IN
       /\ wk' = [wk EXCEPT ![w] = [IdleWorker EXCEPT !.pc = "update_processing",
                                                     !.job_id = j,
                                                     !.employee = payload[j],
                                                     !.before = RecordKind(j)]]
       /\ dequeued' = dequeued \cup {j}
    /\ queue' = Tail(queue)
    /\ UNCHANGED <<store, payload, artifact, nextId, ttl, expired, response, aws, opResult, workdir, stg>>

InQueue(j) == \E i \in 1..Len(queue) : queue[i] = j

\* at-least-once delivery: the queue hands out again a descriptor whose
\* execution has ended (worker crash, timeout, requeue of a failed job)
Redeliver(j) ==
    /\ j \in dequeued
    /\ ~InQueue(j)
    /\ \A w \in Workers : wk[w].job_id # j
    /\ queue' = Append(queue, j)
    /\ UNCHANGED <<store, payload, artifact, nextId, dequeued, wk, ttl, expired, response, aws, opResult, workdir, stg>>

\* the work horse is terminated from outside (crash, timeout kill): the
\* execution ends where it is and runs no handler
Kill(w) ==
    /\ Running(w)
    /\ wk' = [wk EXCEPT ![w] = IdleWorker]
    /\ UNCHANGED <<store, queue, payload, artifact, nextId, dequeued, ttl, expired, response, aws, opResult, workdir, stg>>

\* ---------------------------------------------------------------- worker
\* _update_job_status(redis_conn, job_id, status, video_url, error_message)
UpdateJobStatus(st, j, status, video_url, error_message) ==
    [st EXCEPT ![j] = HSet(@, Updates(status, video_url, error_message))]

\* the exception e is caught by `except Exception as e` of the worker
Raise(w, text, stage) ==
    [wk EXCEPT ![w].pc = "except", ![w].exc = text, ![w].failStage = stage]

\* variant of UpdateProcessing: the stages start without the processing write
UpdateProcessing_NoWrite(w) ==
    /\ wk[w].pc = "update_processing"
    /\ wk' = [wk EXCEPT ![w].pc = "construct", ![w].procWritten = TRUE]
    /\ UNCHANGED <<store, queue, payload, artifact, nextId, dequeued, ttl, expired, response, aws, opResult, workdir, stg>>

\* generate_onboarding_video, line 24: status processing
UpdateProcessing(w) ==
    /\ wk[w].pc = "update_processing"
    /\ \E ok \in BOOLEAN :
         IF ok
         THEN /\ ttl' = TtlAfterHSet(wk[w].job_id)
              /\ store' = UpdateJobStatus(store, wk[w].job_id, "processing", None, None)
              /\ wk' = [wk EXCEPT ![w].pc = "construct", ![w].procWritten = TRUE]
         ELSE /\ wk' = Raise(w, RedisErrorText, "none")
              /\ UNCHANGED <<store, ttl>>
    /\ UNCHANGED <<queue, payload, artifact, nextId, dequeued, expired, response, aws, opResult, workdir, stg>>

\* lines 29-32 and VideoGenerator.generate_onboarding_video lines 34-41:
\* EmployeeData(**dict), VideoGenerator(), then mkdir of the work directory
\* TEMP_DIR/{job_id} and of the dev directory
Construct(w) ==
    /\ wk[w].pc = "construct"
    /\ \/ /\ wk' = [wk EXCEPT ![w].pc = "script"]
          /\ workdir' = [workdir EXCEPT ![wk[w].job_id] = TRUE]
       \/ /\ \E text \in ExcTexts : wk' = Raise(w, text, "none")
          /\ \E made \in BOOLEAN :
               workdir' = [workdir EXCEPT ![wk[w].job_id] = @ \/ made]
    /\ UNCHANGED <<store, queue, payload, artifact, nextId, dequeued, ttl, expired, response, aws, opResult, stg>>

\* _create_welcome_slide, line 141: name.split()[0] raises IndexError on a name
\* without a word, so the visual stage cannot return for such a name
SlideOneRaises(name) == Split(name) = <<>>

\* outcomes of the call of stage s for an employee of this name
StageResults(s, name) ==
    IF s = "visual" /\ SlideOneRaises(name)
    THEN {"raises"}
    ELSE {"returns", "raises", "helper_raises"}

\* str(e) of what stage s may raise for an employee of this name
StageExcTexts(s, name) ==
    IF s = "visual" /\ SlideOneRaises(name)
    THEN ExcTexts \cup {IndexErrorText}
    ELSE ExcTexts

\* VideoGenerator.generate_onboarding_video: one stage call and the dev-output
\* helper calls that follow it; compose moves the video to OUTPUT_DIR/{job_id}.mp4
RunStage(w) ==
    /\ wk[w].pc \in Stages
    /\ LET s == wk[w].pc
           j == wk[w].job_id
           logged == [wk EXCEPT ![w].stageLog = Append(@, s)]
       IN \E res \in StageResults(s, wk[w].employee.name) :
            CASE res = "returns" ->
                   /\ wk' = [logged EXCEPT ![w].pc = NextStage(s),
                                           ![w].video_path =
                                               IF s = "compose" THEN "final_path" ELSE @]
                   /\ artifact' = IF s = "compose"
                                  THEN MoveToOutput(artifact, j) ELSE artifact
              [] res = "raises" ->
                   /\ \E text \in StageExcTexts(s, wk[w].employee.name) :
                        wk' = [logged EXCEPT ![w].pc = "except", ![w].exc = text,
                                             ![w].failStage = s]
                   /\ UNCHANGED artifact
              [] res = "helper_raises" ->
                   /\ \E text \in ExcTexts :
                        wk' = [logged EXCEPT ![w].pc = "except", ![w].exc = text]
                   /\ artifact' = IF s = "compose"
                                  THEN MoveToOutput(artifact, j) ELSE artifact
    /\ UNCHANGED <<store, queue, payload, nextId, dequeued, ttl, expired, response, aws, opResult, workdir, stg>>

\* variant of UpdateCompleted: a run over a record that already has a
\* video_url names its video after the attempt
UpdateCompleted_Versioned(w) ==
    /\ wk[w].pc = "update_completed"
    /\ \E ok \in BOOLEAN :
         IF ok
         THEN /\ ttl' = TtlAfterHSet(wk[w].job_id)
              /\ store' = UpdateJobStatus(store, wk[w].job_id, "completed",
                                          IF IsSet(store[wk[w].job_id]["video_url"])
                                          THEN "/videos/" \o ToString(wk[w].job_id) \o "-2.mp4"
                                          ELSE VideoUrl(wk[w].job_id), None)
              /\ wk' = [wk EXCEPT ![w].pc = "notify",
                                  ![w].termWrites = Append(@, "completed")]
         ELSE /\ wk' = Raise(w, RedisErrorText, "none")
              /\ UNCHANGED <<store, ttl>>
    /\ UNCHANGED <<queue, payload, artifact, nextId, dequeued, expired, response, aws, opResult, workdir, stg>>

\* lines 40-48: status completed with video_url
UpdateCompleted(w) ==
    /\ wk[w].pc = "update_completed"
    /\ \E ok \in BOOLEAN :
         IF ok
         THEN /\ ttl' = TtlAfterHSet(wk[w].job_id)
              /\ store' = UpdateJobStatus(store, wk[w].job_id, "completed",
                                          VideoUrl(wk[w].job_id), None)
              /\ wk' = [wk EXCEPT ![w].pc = "notify",
                                  ![w].termWrites = Append(@, "completed")]
         ELSE /\ wk' = Raise(w, RedisErrorText, "none")
              /\ UNCHANGED <<store, ttl>>
    /\ UNCHANGED <<queue, payload, artifact, nextId, dequeued, expired, response, aws, opResult, workdir, stg>>

\* variant of Notify: a send that was not accepted is followed by a second
\* send_video_ready_email call
Notify_Resend(w) ==
    /\ wk[w].pc = "notify"
    /\ \/ \E text \in ExcTexts : wk' = Raise(w, text, "none")
       \/ IF Split(wk[w].employee.name) = <<>>
          THEN wk' = [Raise(w, IndexErrorText, "none") EXCEPT
                         ![w].okNotified = @ + 1,
                         ![w].notifiedUrl = VideoUrl(wk[w].job_id)]
          ELSE \E transport \in {"202", "other_status", "raises"} :
                 wk' = [wk EXCEPT ![w].pc = "finished", ![w].outcome = "returned",
                                  ![w].okNotified = IF transport = "202" THEN @ + 1 ELSE @ + 2,
                                  ![w].notifiedUrl = VideoUrl(wk[w].job_id)]
    /\ UNCHANGED <<store, queue, payload, artifact, nextId, dequeued, ttl, expired, response, aws, opResult, workdir, stg>>

\* lines 50-64: NotificationService() may raise; then send_video_ready_email
\* and return. name.split()[0] raises IndexError on a name without a word;
\* every outcome of the transport (202, another status, an exception) returns
\* a bool
Notify(w) ==
    /\ wk[w].pc = "notify"
    /\ \/ \E text \in ExcTexts : wk' = Raise(w, text, "none")
       \/ IF Split(wk[w].employee.name) = <<>>
          THEN wk' = [Raise(w, IndexErrorText, "none") EXCEPT
                         ![w].okNotified = @ + 1,
                         ![w].notifiedUrl = VideoUrl(wk[w].job_id)]
          ELSE \E transport \in {"202", "other_status", "raises"} :
                 wk' = [wk EXCEPT ![w].pc = "finished", ![w].outcome = "returned",
                                  ![w].okNotified = @ + 1,
                                  ![w].notifiedUrl = VideoUrl(wk[w].job_id)]
    /\ UNCHANGED <<store, queue, payload, artifact, nextId, dequeued, ttl, expired, response, aws, opResult, workdir, stg>>

\* variant of Except: a failed attempt puts the record back to queued
Except_Requeue(w) ==
    /\ wk[w].pc = "except"
    /\ \E ok \in BOOLEAN :
         IF ok
         THEN /\ ttl' = TtlAfterHSet(wk[w].job_id)
              /\ store' = UpdateJobStatus(store, wk[w].job_id, "queued", None, wk[w].exc)
              /\ wk' = [wk EXCEPT ![w].pc = "finished", ![w].outcome = "raised",
                                  ![w].termWrites = Append(@, "failed")]
         ELSE /\ wk' = [wk EXCEPT ![w].pc = "finished", ![w].outcome = "raised"]
              /\ UNCHANGED <<store, ttl>>
    /\ UNCHANGED <<queue, payload, artifact, nextId, dequeued, expired, response, aws, opResult, workdir, stg>>

\* lines 66-77: status failed with error_message=str(e), then re-raise
Except(w) ==
    /\ wk[w].pc = "except"
    /\ \E ok \in BOOLEAN :
         IF ok
         THEN /\ ttl' = TtlAfterHSet(wk[w].job_id)
              /\ store' = UpdateJobStatus(store, wk[w].job_id, "failed", None, wk[w].exc)
              /\ wk' = [wk EXCEPT ![w].pc = "finished", ![w].outcome = "raised",
                                  ![w].termWrites = Append(@, "failed")]
         ELSE /\ wk' = [wk EXCEPT ![w].pc = "finished", ![w].outcome = "raised"]
              /\ UNCHANGED <<store, ttl>>
    /\ UNCHANGED <<queue, payload, artifact, nextId, dequeued, expired, response, aws, opResult, workdir, stg>>

\* the job function has returned or raised: the RQ worker records the
\* outcome and waits for the next job
Finish(w) ==
    /\ wk[w].pc = "finished"
    /\ wk' = [wk EXCEPT ![w] = IdleWorker]
    /\ UNCHANGED <<store, queue, payload, artifact, nextId, dequeued, ttl, expired, response, aws, opResult, workdir, stg>>

WorkerStep(w) ==
    \/ UpdateProcessing(w)
    \/ Construct(w)
    \/ RunStage(w)
    \/ UpdateCompleted(w)
    \/ Notify(w)
    \/ Except(w)
    \/ Finish(w)

Employees == [employee_id : EmployeeIds, name : Names]

Next ==
    \/ \E e \in Employees, r \in {"ok", "store_raises", "expire_raises", "enqueue_raises"} : Intake(e, r)
    \/ \E w \in Workers : Dequeue(w)
    \/ \E w \in Workers : WorkerStep(w)
    \/ \E w \in Workers : Kill(w)
    \/ \E j \in JobIds : Redeliver(j)

Spec == Init /\ [][Next]_vars

\* the RQ worker process keeps running the job function it has called
FairSpec == Spec /\ \A w \in Workers : WF_vars(Dequeue(w) \/ WorkerStep(w))

\* ---------------------------------------------------------------- status lookup
\* a str as the bytes object redis-py returns when decode_responses=False
Bytes(x) == "b'" \o x \o "'"

\* redis hgetall(key): the fields present in the hash; keys and values are
\* str on a connection with decode_responses=True and bytes otherwise
HGetAll(rec, decode_responses) ==
    LET present == {f \in Fields : rec[f] # Absent}
    IN IF decode_responses
       THEN [k \in present |-> rec[k]]
       ELSE [k \in {Bytes(f) : f \in present} |->
               Bytes(rec[CHOOSE f \in present : Bytes(f) = k])]

\* dict.get(key): None for a missing key
DictGet(d, k) == IF k \in DOMAIN d THEN d[k] ELSE None

\* WebhookProcessor.get_job_status on the connection of WebhookProcessor.__init__
\* (decode_responses=False): the hash, or None for an empty one
ProcessorGetJobStatus(j) ==
    LET job_data == HGetAll(store[j], FALSE)
    IN [found |-> DOMAIN job_data # {}, job_data |-> job_data]

\* api/jobs.py get_job_status: 404 without job data, else the five fields
\* read from the hash with str keys
GetJobStatus(j) ==
    LET r == ProcessorGetJobStatus(j)
    IN IF ~r.found
       THEN [status_code |-> 404, status |-> None, created_at |-> None,
             completed_at |-> None, video_url |-> None, error_message |-> None]
       ELSE [status_code |-> 200,
             status |-> DictGet(r.job_data, "status"),
             created_at |-> DictGet(r.job_data, "created_at"),
             completed_at |-> DictGet(r.job_data, "completed_at"),
             video_url |-> DictGet(r.job_data, "video_url"),
             error_message |-> DictGet(r.job_data, "error_message")]

\* ---------------------------------------------------------------- time
Expires(j) == ttl[j] > 0 /\ ttl[j] - TickStep <= 0

\* TickStep seconds pass: the store counts every expiry down and deletes the
\* keys whose retention window has run out
Tick ==
    /\ \E j \in JobIds : ttl[j] > 0
    /\ ttl' = [j \in JobIds |->
                 IF ttl[j] > 0
                 THEN (IF Expires(j) THEN NoKey ELSE ttl[j] - TickStep)
                 ELSE ttl[j]]
    /\ store' = [j \in JobIds |-> IF Expires(j) THEN NoRecord ELSE store[j]]
    /\ expired' = expired \cup {j \in JobIds : Expires(j)}
    /\ UNCHANGED <<queue, payload, artifact, nextId, dequeued, wk, response, aws, opResult, workdir, stg>>

\* start_worker.py runs one RQ worker process
SingleWorker == 1

TimedNext ==
    \/ \E e \in Employees, r \in {"ok", "store_raises", "expire_raises", "enqueue_raises"} :
          Intake(e, r)
    \/ Dequeue(SingleWorker)
    \/ WorkerStep(SingleWorker)
    \/ Kill(SingleWorker)
    \/ \E j \in JobIds : Redeliver(j)
    \/ Tick

\* the pipeline of one worker process with the passage of time
TimedSpec == Init /\ [][TimedNext]_vars

\* ---------------------------------------------------------------- store operations
\* WebhookProcessor._store_job called for a job with identifier j: hset of the
\* whole record, expire; returns None
StoreJobCall(j, employee_id) ==
    /\ store' = [store EXCEPT ![j] = HSet(@, StoreJobData(j, employee_id))]
    /\ ttl' = [ttl EXCEPT ![j] = Retention]
    /\ opResult' = "returned"
    /\ UNCHANGED <<queue, payload, artifact, nextId, dequeued, wk, expired, response, aws, workdir, stg>>

\* _update_job_status called for the job with identifier j; returns None
UpdateStatusCall(j, status, video_url, error_message) ==
    /\ store' = UpdateJobStatus(store, j, status, video_url, error_message)
    /\ ttl' = TtlAfterHSet(j)
    /\ opResult' = "returned"
    /\ UNCHANGED <<queue, payload, artifact, nextId, dequeued, wk, expired, response, aws, workdir, stg>>

StoreNext ==
    \/ \E j \in JobIds, e \in EmployeeIds : StoreJobCall(j, e)
    \/ \E j \in JobIds, st \in {"processing", "completed", "failed"} :
          \E u \in {None, VideoUrl(j)}, m \in {None} \cup ExcTexts :
              UpdateStatusCall(j, st, u, m)
    \/ Tick

\* the two store operations of the code applied to every identifier and input
StoreSpec == Init /\ [][StoreNext]_vars

\* ---------------------------------------------------------------- notification
\* outcomes of SendGridAPIClient.send: status 202, another status, an exception
Transports == {"202", "other_status", "raises"}

\* NotificationService._send_fallback_notification: name.split()[0], the
\* logged record, return True
SendFallbackNotification(name) ==
    IF Split(name) = <<>>
    THEN [result |-> "IndexError", fallbackLogged |-> FALSE]
    ELSE [result |-> "True", fallbackLogged |-> TRUE]

\* variant of SendVideoReadyEmail: success is returned whatever the transport did
SendVideoReadyEmail_AlwaysTrue(name, transport, use_fallback) ==
    IF use_fallback
    THEN SendFallbackNotification(name)
    ELSE IF Split(name) = <<>>
         THEN [result |-> "IndexError", fallbackLogged |-> FALSE]
         ELSE [result |-> "True", fallbackLogged |-> FALSE]

\* NotificationService.send_video_ready_email: what the call returns or raises
\* and whether it logged the fallback record
SendVideoReadyEmail(name, transport, use_fallback) ==
    IF use_fallback
    THEN SendFallbackNotification(name)
    ELSE IF Split(name) = <<>>
         THEN [result |-> "IndexError", fallbackLogged |-> FALSE]
         ELSE IF transport = "202"
              THEN [result |-> "True", fallbackLogged |-> FALSE]
              ELSE [result |-> "False", fallbackLogged |-> FALSE]

\* NotificationService.send_error_notification
SendErrorNotification(name, transport) ==
    IF Split(name) = <<>>
    THEN [result |-> "IndexError", fallbackLogged |-> FALSE]
    ELSE IF transport = "202"
         THEN [result |-> "True", fallbackLogged |-> FALSE]
         ELSE [result |-> "False", fallbackLogged |-> FALSE]

\* ---------------------------------------------------------------- serverless worker
\* the exception e reaches `except Exception as e` of generate_onboarding_video_aws
AwsRaise(text, stage) ==
    [aws EXCEPT !.pc = "except", !.exc = text, !.failStage = stage]

\* variant of AwsInvoke: the function marks the record as processing as the
\* RQ job function does
AwsInvoke_MarksProcessing(j, employee) ==
    /\ aws.pc = "idle"
    /\ aws' = [IdleAws EXCEPT !.pc = "construct", !.job_id = j, !.employee = employee]
    /\ ttl' = TtlAfterHSet(j)
    /\ store' = UpdateJobStatus(store, j, "processing", None, None)
    /\ UNCHANGED <<queue, payload, artifact, nextId, dequeued, wk, expired, response, opResult, workdir, stg>>

\* process_video_generation_job: employee_data and job_id of the event are
\* passed to generate_onboarding_video_aws
AwsInvoke(j, employee) ==
    /\ aws.pc = "idle"
    /\ aws' = [IdleAws EXCEPT !.pc = "construct", !.job_id = j, !.employee = employee]
    /\ UNCHANGED <<store, queue, payload, artifact, nextId, dequeued, wk, ttl, expired, response, opResult, workdir, stg>>

\* lines 29-44: EmployeeData(**dict) binds employee_data, then the temporary
\* directory and the three services
AwsConstruct ==
    /\ aws.pc = "construct"
    /\ \/ aws' = [aws EXCEPT !.pc = "script", !.bound = TRUE]
       \/ \E text \in ExcTexts : aws' = AwsRaise(text, "validate")
       \/ \E text \in ExcTexts :
            aws' = [AwsRaise(text, "construct") EXCEPT !.bound = TRUE]
    /\ UNCHANGED <<store, queue, payload, artifact, nextId, dequeued, wk, ttl, expired, response, opResult, workdir, stg>>

\* lines 49-52: VideoGenerator.generate_onboarding_video, one stage at a time
AwsStage ==
    /\ aws.pc \in Stages
    /\ \/ /\ "returns" \in StageResults(aws.pc, aws.employee.name)
          /\ aws' = [aws EXCEPT !.pc = IF aws.pc = "compose" THEN "upload"
                                       ELSE NextStage(aws.pc)]
       \/ \E text \in StageExcTexts(aws.pc, aws.employee.name) :
            aws' = AwsRaise(text, aws.pc)
    /\ UNCHANGED <<store, queue, payload, artifact, nextId, dequeued, wk, ttl, expired, response, opResult, workdir, stg>>

\* lines 58-68: S3Service.upload_video, then upload_dev_files
AwsUpload ==
    /\ aws.pc = "upload"
    /\ \/ aws' = [aws EXCEPT !.pc = "notify"]
       \/ \E text \in ExcTexts, st \in {"upload_video", "upload_dev_files"} :
            aws' = AwsRaise(text, st)
    /\ UNCHANGED <<store, queue, payload, artifact, nextId, dequeued, wk, ttl, expired, response, opResult, workdir, stg>>

\* lines 74-78: email_sent = send_video_ready_email(email, name, s3_video_url)
AwsNotify ==
    /\ aws.pc = "notify"
    /\ \E transport \in Transports :
         LET r == SendVideoReadyEmail(aws.employee.name, transport, FALSE)
         IN IF r.result = "IndexError"
            THEN aws' = AwsRaise(IndexErrorText, "notify")
            ELSE aws' = [aws EXCEPT !.transport = transport,
                                    !.email_sent = r.result,
                                    !.fallbackLogged = r.fallbackLogged,
                                    !.pc = IF r.result = "True" THEN "finished"
                                           ELSE "fallback",
                                    !.outcome = IF r.result = "True" THEN "returned"
                                                ELSE @]
    /\ UNCHANGED <<store, queue, payload, artifact, nextId, dequeued, wk, ttl, expired, response, opResult, workdir, stg>>

\* lines 80-98: `if not email_sent`, the second call with use_fallback=True,
\* then return
AwsFallback ==
    /\ aws.pc = "fallback"
    /\ LET r == SendVideoReadyEmail(aws.employee.name, "none", TRUE)
       IN IF r.result = "IndexError"
          THEN aws' = AwsRaise(IndexErrorText, "fallback")
          ELSE aws' = [aws EXCEPT !.fallbackLogged = r.fallbackLogged,
                                  !.pc = "finished", !.outcome = "returned"]
    /\ UNCHANGED <<store, queue, payload, artifact, nextId, dequeued, wk, ttl, expired, response, opResult, workdir, stg>>

\* variant of AwsExcept: the exception ends in the handler and the function
\* returns
AwsExcept_Swallow ==
    /\ aws.pc = "except"
    /\ aws' = [aws EXCEPT !.errSent = IF aws.bound THEN "False" ELSE "NameError",
                          !.pc = "finished", !.outcome = "returned"]
    /\ UNCHANGED <<store, queue, payload, artifact, nextId, dequeued, wk, ttl, expired, response, opResult, workdir, stg>>

\* lines 100-114: send_error_notification inside its own try, then re-raise;
\* employee_data is unbound when EmployeeData(**dict) raised, and the
\* NameError of reading it is caught like every other exception, as is an
\* exception of NotificationService()
AwsExcept ==
    /\ aws.pc = "except"
    /\ IF ~aws.bound
       THEN aws' = [aws EXCEPT !.errSent = "NameError",
                               !.pc = "finished", !.outcome = "raised"]
       ELSE \/ aws' = [aws EXCEPT !.errSent = "not_constructed",
                                   !.pc = "finished", !.outcome = "raised"]
            \/ \E transport \in Transports :
                 LET r == SendErrorNotification(aws.employee.name, transport)
                 IN aws' = [aws EXCEPT !.errTransport =
                                           IF r.result = "IndexError" THEN @ ELSE transport,
                                       !.errSent = r.result,
                                       !.pc = "finished", !.outcome = "raised"]
    /\ UNCHANGED <<store, queue, payload, artifact, nextId, dequeued, wk, ttl, expired, response, opResult, workdir, stg>>

\* worker_handler returns statusCode 200, or 500 when the job function raised
AwsFinish ==
    /\ aws.pc = "finished"
    /\ aws' = [IdleAws EXCEPT !.statusCode = IF aws.outcome = "returned" THEN 200
                                             ELSE 500]
    /\ UNCHANGED <<store, queue, payload, artifact, nextId, dequeued, wk, ttl, expired, response, opResult, workdir, stg>>

AwsNext ==
    \/ \E j \in JobIds, e \in Employees : AwsInvoke(j, e)
    \/ AwsConstruct
    \/ AwsStage
    \/ AwsUpload
    \/ AwsNotify
    \/ AwsFallback
    \/ AwsExcept
    \/ AwsFinish

AwsSpec == Init /\ [][AwsNext]_vars

\* ---------------------------------------------------------------- overlapping delivery
\* the 10-minute ceiling of the job passes while generate_onboarding_video is
\* still running in worker w: the queue treats the job as failed and hands
\* its descriptor out again, and nothing interrupts the running execution
TimeoutRedeliver(j) ==
    /\ j \in dequeued
    /\ ~InQueue(j)
    /\ \E w \in Workers : wk[w].job_id = j /\ wk[w].pc \notin {"idle", "finished"}
    /\ \A w1, w2 \in Workers : (wk[w1].job_id = j /\ wk[w2].job_id = j) => w1 = w2
    /\ queue' = Append(queue, j)
    /\ UNCHANGED <<store, payload, artifact, nextId, dequeued, wk, ttl, expired, response, aws, opResult, workdir, stg>>

OverlapNext ==
    \/ Next
    \/ \E j \in JobIds : TimeoutRedeliver(j)

OverlapSpec == Init /\ [][OverlapNext]_vars

\* ---------------------------------------------------------------- script parsing
\* a response line as its tokens: blanks, colons and words
ScriptLines ==
    { <<"Alex", ":", " ", "hi">>,
      <<" ", "JORDAN", " ", ":", "hi", " ">>,
      <<"Speaker2", ":", "hi", ":", "hi">>,
      <<"Narrator", ":", "hi">>,
      <<"host1", ":", " ">>,
      <<":", "hi">>,
      <<"hi">>,
      <<" ">> }

RECURSIVE SeqsUpTo(_, _)
\* the sequences of at most n elements of S
SeqsUpTo(S, n) ==
    IF n = 0 THEN {<<>>}
    ELSE LET shorter == SeqsUpTo(S, n - 1)
         IN shorter \cup {Append(q, x) : q \in shorter, x \in S}

\* str.lower() of a word
LowerWord(t) ==
    CASE t = "Alex" -> "alex"
      [] t = "JORDAN" -> "jordan"
      [] t = "Speaker2" -> "speaker2"
      [] t = "Narrator" -> "narrator"
      [] OTHER -> t

Lower(s) == [i \in 1..Len(s) |-> LowerWord(s[i])]

RECURSIVE LStrip(_)
LStrip(s) == IF s # <<>> /\ Head(s) = " " THEN LStrip(Tail(s)) ELSE s

RECURSIVE RStrip(_)
RStrip(s) ==
    IF s # <<>> /\ s[Len(s)] = " " THEN RStrip(SubSeq(s, 1, Len(s) - 1)) ELSE s

\* str.strip()
Strip(s) == RStrip(LStrip(s))

HasColon(line) == \E i \in 1..Len(line) : line[i] = ":"

FirstColon(line) == CHOOSE i \in 1..Len(line) : line[i] = ":" /\ \A k \in 1..(i - 1) : line[k] # ":"

\* lines 129-133: alex/host1/speaker1 and jordan/host2/speaker2 are renamed,
\* every other label is kept as it is
NormalizeSpeaker(speaker) ==
    IF speaker \in {<<"alex">>, <<"host1">>, <<"speaker1">>} THEN <<"host1">>
    ELSE IF speaker \in {<<"jordan">>, <<"host2">>, <<"speaker2">>} THEN <<"host2">>
    ELSE speaker

\* variant of ParseLine: a line with nothing after its colon gives an entry
\* with an empty text
ParseLine_KeepEmpty(raw) ==
    LET line == Strip(raw)
    IN IF line = <<>> \/ ~HasColon(line)
       THEN <<>>
       ELSE LET c == FirstColon(line)
                speaker == Lower(Strip(SubSeq(line, 1, c - 1)))
                text == Strip(SubSeq(line, c + 1, Len(line)))
            IN << [speaker |-> NormalizeSpeaker(speaker), text |-> text] >>

\* lines 117-136: what one line adds to the script
ParseLine(raw) ==
    LET line == Strip(raw)
    IN IF line = <<>> \/ ~HasColon(line)
       THEN <<>>
       ELSE LET c == FirstColon(line)
                speaker == Lower(Strip(SubSeq(line, 1, c - 1)))
                text == Strip(SubSeq(line, c + 1, Len(line)))
            IN IF text # <<>>
               THEN << [speaker |-> NormalizeSpeaker(speaker), text |-> text] >>
               ELSE <<>>

RECURSIVE ParseScript(_)
\* ScriptGenerator._parse_script on the lines of the response
ParseScript(lines) ==
    IF lines = <<>> THEN <<>>
    ELSE ParseLine(Head(lines)) \o ParseScript(Tail(lines))

ParseCall(lines) ==
    /\ stg' = [op |-> "parse", lines |-> lines, script |-> ParseScript(lines)]
    /\ UNCHANGED <<store, queue, payload, artifact, nextId, dequeued, wk, ttl, expired,
                   response, aws, opResult, workdir>>

\* ---------------------------------------------------------------- narration
PauseMs == 500

\* len() in milliseconds of the clips the speech service may return
ClipMs == {700, 1200}

\* generate_audio, lines 44-56: the list audio_segments after the loop
RECURSIVE AudioSegments(_)
AudioSegments(clips) ==
    IF clips = <<>> THEN <<>>
    ELSE << [kind |-> "clip", ms |-> Head(clips)], [kind |-> "pause", ms |-> PauseMs] >>
         \o AudioSegments(Tail(clips))

RECURSIVE TotalMs(_)
TotalMs(segments) ==
    IF segments = <<>> THEN 0 ELSE Head(segments).ms + TotalMs(Tail(segments))

\* variant of SumSegments: the silence after the last clip is left out
SumSegments_DropLast(segments) ==
    IF segments = <<>>
    THEN [type |-> "int", ms |-> 0, layout |-> <<>>]
    ELSE [type |-> "AudioSegment", ms |-> TotalMs(segments) - PauseMs,
          layout |-> [i \in 1..(Len(segments) - 1) |-> segments[i].kind]]

\* line 61: sum(audio_segments) starts from the int 0, which AudioSegment
\* absorbs; of an empty list it is the int 0 itself
SumSegments(segments) ==
    IF segments = <<>>
    THEN [type |-> "int", ms |-> 0, layout |-> <<>>]
    ELSE [type |-> "AudioSegment", ms |-> TotalMs(segments),
          layout |-> [i \in 1..Len(segments) |-> segments[i].kind]]

\* AudioGenerator.generate_audio for a script whose clips have these lengths;
\* failAt is the entry whose synthesis raises, 0 for none
GenerateAudio(clips, failAt) ==
    IF failAt \in 1..Len(clips)
    THEN [raised |-> "SynthesisError", path |-> None, ms |-> 0, layout |-> <<>>]
    ELSE LET final_audio == SumSegments(AudioSegments(clips))
         IN IF final_audio.type = "int"
            THEN [raised |-> "AttributeError", path |-> None, ms |-> 0, layout |-> <<>>]
            ELSE [raised |-> "none", path |-> "final_audio.mp3",
                  ms |-> final_audio.ms, layout |-> final_audio.layout]

AudioCall(clips, failAt) ==
    /\ stg' = [op |-> "audio", clips |-> clips, failAt |-> failAt,
               out |-> GenerateAudio(clips, failAt)]
    /\ UNCHANGED <<store, queue, payload, artifact, nextId, dequeued, wk, ttl, expired,
                   response, aws, opResult, workdir>>

\* ---------------------------------------------------------------- speech synthesis
\* AudioGenerator.__init__, lines 20-31: the voice configured for each host
Voices ==
    [k \in {<<"host1">>, <<"host2">>} |->
        IF k = <<"host1">>
        THEN [language_code |-> "en-US", name |-> "en-US-Chirp3-HD-Algenib",
              ssml_gender |-> "MALE"]
        ELSE [language_code |-> "en-US", name |-> "en-US-Chirp3-HD-Aoede",
              ssml_gender |-> "FEMALE"]]

\* the speaker keys a parsed script can carry, and texts to speak
SpeakerKeys == {<<"host1">>, <<"host2">>, <<"narrator">>, <<>>}
Texts == {<<"hi">>, <<"hi", ":", "hi">>}

\* variant of VoiceConfig: a key without a voice gets the voice of host2
VoiceConfig_Host2Default(speaker) ==
    IF speaker \in DOMAIN Voices THEN Voices[speaker] ELSE Voices[<<"host2">>]

\* line 76: self.voices.get(speaker, self.voices['host1'])
VoiceConfig(speaker) ==
    IF speaker \in DOMAIN Voices THEN Voices[speaker] ELSE Voices[<<"host1">>]

\* AudioGenerator._synthesize_speech: the request sent to the speech service
\* and what is written to output_file; the service may raise
SynthesizeSpeech(text, speaker, service_raises) ==
    LET voice_config == VoiceConfig(speaker)
        request == [input |-> text,
                    voice |-> [language_code |-> voice_config.language_code,
                               name |-> voice_config.name,
                               ssml_gender |-> voice_config.ssml_gender],
                    audio_encoding |-> "MP3"]
    IN [request |-> request,
        raised |-> IF service_raises THEN "ServiceError" ELSE "none",
        written |-> ~service_raises]

SynthesizeCall(text, speaker, service_raises) ==
    /\ stg' = [op |-> "synthesize", text |-> text, speaker |-> speaker,
               out |-> SynthesizeSpeech(text, speaker, service_raises)]
    /\ UNCHANGED <<store, queue, payload, artifact, nextId, dequeued, wk, ttl, expired,
                   response, aws, opResult, workdir>>

\* ---------------------------------------------------------------- slides
\* _create_slides, lines 99-117: the five slides in the order they are made
SlideKinds == <<"welcome", "role", "tech", "schedule", "closing">>

SlideFile(i) == "slide_" \o ToString(i) \o ".png"

\* creating slide i raises: the call chosen to fail, or the welcome slide for a
\* name without a word
SlideRaises(i, name, failAt) == failAt = i \/ (i = 1 /\ SlideOneRaises(name))

\* variant of CreateSlidesFrom: a slide that cannot be made ends the list,
\* which is returned as far as it got
RECURSIVE CreateSlidesFrom_Partial(_, _, _, _)
CreateSlidesFrom_Partial(i, slides, name, failAt) ==
    IF i > Len(SlideKinds)
    THEN [raised |-> "none", returned |-> slides, saved |-> slides]
    ELSE IF SlideRaises(i, name, failAt)
         THEN [raised |-> "none", returned |-> slides, saved |-> slides]
         ELSE CreateSlidesFrom_Partial(i + 1,
                  Append(slides, [file |-> SlideFile(i), kind |-> SlideKinds[i]]),
                  name, failAt)

\* _create_slides from slide i on, with the list built so far: an exception
\* of a slide leaves the function, the files saved so far stay in work_dir
RECURSIVE CreateSlidesFrom(_, _, _, _)
CreateSlidesFrom(i, slides, name, failAt) ==
    IF i > Len(SlideKinds)
    THEN [raised |-> "none", returned |-> slides, saved |-> slides]
    ELSE IF SlideRaises(i, name, failAt)
         THEN [raised |-> IF failAt = i THEN "OSError" ELSE "IndexError",
               returned |-> <<>>, saved |-> slides]
         ELSE CreateSlidesFrom(i + 1,
                  Append(slides, [file |-> SlideFile(i), kind |-> SlideKinds[i]]),
                  name, failAt)

\* variant of CreateSlides: the slides made before the failure are returned
CreateSlides_Partial(name, failAt) == CreateSlidesFrom_Partial(1, <<>>, name, failAt)

\* VideoGenerator._create_slides
CreateSlides(name, failAt) == CreateSlidesFrom(1, <<>>, name, failAt)

SlidesCall(name, failAt) ==
    /\ stg' = [op |-> "slides", name |-> name, failAt |-> failAt,
               out |-> CreateSlides(name, failAt)]
    /\ UNCHANGED <<store, queue, payload, artifact, nextId, dequeued, wk, ttl, expired,
                   response, aws, opResult, workdir>>

\* ---------------------------------------------------------------- schedule slide
MaxSchedule == 6

\* line 240: first_day_schedule[:5]
ShownItems == 5

\* the entries a first-day schedule is made of
ScheduleItems ==
    { [time |-> "9:00 AM", activity |-> "Welcome"],
      [time |-> "10:00 AM", activity |-> "Setup"] }

\* variant of Shown: the whole schedule is drawn
Shown_All(first_day_schedule) == first_day_schedule

\* first_day_schedule[:5]
Shown(first_day_schedule) ==
    SubSeq(first_day_schedule, 1,
           IF Len(first_day_schedule) < ShownItems THEN Len(first_day_schedule)
           ELSE ShownItems)

\* VideoGenerator._create_schedule_slide: the texts drawn on the slide, the
\* title first and one line per item 60 pixels below the one before it
CreateScheduleSlide(first_day_schedule) ==
    LET items == Shown(first_day_schedule)
    IN [title |-> [xy |-> <<200, 150>>, text |-> "First Day Schedule"],
        items |-> [i \in 1..Len(items) |->
                      [xy |-> <<200, 300 + 60 * (i - 1)>>,
                       text |-> <<items[i].time, " - ", items[i].activity>>]],
        saved |-> TRUE]

ScheduleCall(first_day_schedule) ==
    /\ stg' = [op |-> "schedule", first_day_schedule |-> first_day_schedule,
               out |-> CreateScheduleSlide(first_day_schedule)]
    /\ UNCHANGED <<store, queue, payload, artifact, nextId, dequeued, wk, ttl, expired,
                   response, aws, opResult, workdir>>

\* ---------------------------------------------------------------- compose
\* get_audio_duration: len(audio) / 1000.0 seconds
MsPerSecond == 1000

\* ffmpeg reads the -t option down to the microsecond
UsPerMs == 1000

\* narration lengths in milliseconds and slide counts given to _compose_video
AudioMs == {100 * MsPerSecond, 1700, 2900, 1}
SlideCounts == {2, Len(SlideKinds)}

\* variant of SlideDuration: every slide is shown for the whole narration
SlideDuration_Whole(audio_ms, slide_count) == audio_ms * UsPerMs

\* line 285: slide_duration = audio_duration / len(slides), in microseconds
SlideDuration(audio_ms, slide_count) == (audio_ms * UsPerMs) \div slide_count

\* VideoGenerator.__init__, line 23
Fps == 30

\* lines 305-310: the options of the slide inputs, one group per slide
RECURSIVE SlideInputs(_, _)
SlideInputs(slides, slide_duration) ==
    IF slides = <<>> THEN <<>>
    ELSE <<"-loop", "1", "-t", ToString(slide_duration), "-i", Head(slides)>>
         \o SlideInputs(Tail(slides), slide_duration)

\* line 296: the filter that joins the slide inputs
ConcatFilter(slide_count) ==
    "concat=n=" \o ToString(slide_count) \o ":v=1:a=0,fps=" \o ToString(Fps) \o "[v]"

\* variant of AudioMap: the sound is taken from the first input
AudioMap_First(slide_count) == "0:a"

\* line 317: the stream of the output's sound
AudioMap(slide_count) == ToString(slide_count) \o ":a"

\* lines 299-324: the command line of the encoder
EncoderCommand(slides, audio_path, slide_duration, slides_video) ==
    <<"ffmpeg", "-y">>
    \o SlideInputs(slides, slide_duration)
    \o <<"-i", audio_path,
         "-filter_complex", ConcatFilter(Len(slides)),
         "-map", "[v]",
         "-map", AudioMap(Len(slides)),
         "-c:v", "libx264",
         "-preset", "fast",
         "-crf", "23",
         "-c:a", "aac",
         "-shortest",
         slides_video>>

\* variant of ArtifactAfter: the encoder writes to the public location itself
ArtifactAfter_InPlace(existing, exit_code, os_name) ==
    IF exit_code # 0 THEN "partial" ELSE "new"

\* lines 326-342: what is at OUTPUT_DIR/{job_id}.mp4 after the call. The
\* encoder writes work_dir/slides.mp4; rename replaces an existing file on
\* POSIX and raises FileExistsError on Windows
ArtifactAfter(existing, exit_code, os_name) ==
    IF exit_code # 0 THEN existing
    ELSE IF existing # "none" /\ os_name = "nt" THEN existing
    ELSE "new"

\* VideoGenerator._compose_video
ComposeVideo(slide_count, audio_ms, exit_code, stderr, existing, os_name) ==
    LET d == SlideDuration(audio_ms, slide_count)
    IN [durations |-> [i \in 1..slide_count |-> d],
        cmd |-> EncoderCommand([i \in 1..slide_count |-> SlideFile(i)],
                               "final_audio.mp3", d, "slides.mp4"),
        raised |-> IF exit_code # 0 THEN "CalledProcessError"
                   ELSE IF existing # "none" /\ os_name = "nt" THEN "FileExistsError"
                   ELSE "none",
        stderr |-> IF exit_code # 0 THEN stderr ELSE None,
        artifact |-> ArtifactAfter(existing, exit_code, os_name)]

ComposeCall(slide_count, audio_ms, exit_code, existing, os_name) ==
    /\ stg' = [op |-> "compose", slide_count |-> slide_count, audio_ms |-> audio_ms,
               exit_code |-> exit_code, stderr |-> "encoder diagnostics",
               existing |-> existing, os_name |-> os_name,
               out |-> ComposeVideo(slide_count, audio_ms, exit_code,
                                    "encoder diagnostics", existing, os_name)]
    /\ UNCHANGED <<store, queue, payload, artifact, nextId, dequeued, wk, ttl, expired,
                   response, aws, opResult, workdir>>

\* ---------------------------------------------------------------- stage functions
StageNext ==
    \/ \E lines \in SeqsUpTo(ScriptLines, MaxLines) : ParseCall(lines)
    \/ \E clips \in SeqsUpTo(ClipMs, MaxClips) :
          \E failAt \in 0..Len(clips) : AudioCall(clips, failAt)
    \/ \E text \in Texts, speaker \in SpeakerKeys, service_raises \in BOOLEAN :
          SynthesizeCall(text, speaker, service_raises)
    \/ \E name \in Names, failAt \in 0..Len(SlideKinds) : SlidesCall(name, failAt)
    \/ \E first_day_schedule \in SeqsUpTo(ScheduleItems, MaxSchedule) :
          ScheduleCall(first_day_schedule)
    \/ \E n \in SlideCounts, ms \in AudioMs, exit_code \in {0, 1},
          existing \in {"none", "old"}, os_name \in {"posix", "nt"} :
          ComposeCall(n, ms, exit_code, existing, os_name)

\* the stage functions applied to every input of the bounded sets
StageSpec == Init /\ [][StageNext]_vars

\* ---------------------------------------------------------------- both workers
\* intake and one RQ worker process, beside the serverless worker that is
\* invoked with descriptors of the same jobs
BothNext ==
    \/ \E e \in Employees, r \in {"ok", "store_raises", "expire_raises", "enqueue_raises"} :
          Intake(e, r)
    \/ Dequeue(SingleWorker)
    \/ WorkerStep(SingleWorker)
    \/ AwsNext

BothSpec == Init /\ [][BothNext]_vars

\* ---------------------------------------------------------------- worker handler
MaxRecords == 3

\* job descriptors as they arrive in an event: the two keys being present,
\* and whether generate_onboarding_video_aws raises for the job
JobOk == [valid_json |-> TRUE, employee_data |-> TRUE, job_id |-> TRUE, raises |-> FALSE]
JobRaises == [valid_json |-> TRUE, employee_data |-> TRUE, job_id |-> TRUE, raises |-> TRUE]
JobNoId == [valid_json |-> TRUE, employee_data |-> TRUE, job_id |-> FALSE, raises |-> FALSE]
NotJson == [valid_json |-> FALSE, employee_data |-> FALSE, job_id |-> FALSE, raises |-> FALSE]

\* the records of an event: messages of the queue and a record of another
\* event source
EventRecords ==
    { [eventSource |-> "aws:sqs", body |-> JobOk],
      [eventSource |-> "aws:sqs", body |-> JobRaises],
      [eventSource |-> "aws:sqs", body |-> JobNoId],
      [eventSource |-> "aws:sqs", body |-> NotJson],
      [eventSource |-> "aws:s3", body |-> JobOk] }

\* an event with 'Records', or a job descriptor invoked directly
Events ==
    [has_records : {TRUE}, Records : SeqsUpTo(EventRecords, MaxRecords), job : {JobOk}]
    \cup [has_records : {FALSE}, Records : {<<>>}, job : {JobOk, JobRaises, JobNoId}]

\* process_video_generation_job, lines 183-201: the exception it raises
ProcessVideoGenerationJob(job_data) ==
    IF ~job_data.employee_data \/ ~job_data.job_id THEN "ValueError"
    ELSE IF job_data.raises THEN "Exception"
    ELSE "none"

\* lines 155-157 for one record: a record of another source is passed over,
\* json.loads raises for a body that is not JSON
HandleRecord(record) ==
    IF record.eventSource # "aws:sqs" THEN [did |-> "skipped", raised |-> "none"]
    ELSE IF ~record.body.valid_json
         THEN [did |-> "loads", raised |-> "JSONDecodeError"]
         ELSE [did |-> "processed", raised |-> ProcessVideoGenerationJob(record.body)]

\* lines 154-157: the loop over the records from record i on; log lists what
\* was done with each record the loop reached
RECURSIVE HandleRecords(_, _, _)
HandleRecords(records, i, log) ==
    IF i > Len(records) THEN [raised |-> "none", log |-> log]
    ELSE LET r == HandleRecord(records[i])
             entry == [record |-> i, did |-> r.did, raised |-> r.raised]
         IN IF r.raised # "none"
            THEN [raised |-> r.raised, log |-> Append(log, entry)]
            ELSE HandleRecords(records, i + 1, Append(log, entry))

\* variant of WorkerHandler: the exception of a record leaves the handler
WorkerHandler_Propagates(event) ==
    LET r == IF event.has_records THEN HandleRecords(event.Records, 1, <<>>)
             ELSE [raised |-> ProcessVideoGenerationJob(event.job),
                   log |-> << [record |-> 0, did |-> "processed",
                               raised |-> ProcessVideoGenerationJob(event.job)] >>]
    IN [statusCode |-> IF r.raised = "none" THEN 200 ELSE 0,
        success |-> r.raised = "none",
        error |-> r.raised,
        raised |-> r.raised,
        log |-> r.log]

\* worker_handler, lines 148-178: the response, the exception that leaves the
\* handler, and what was done with the records
WorkerHandler(event) ==
    LET r == IF event.has_records THEN HandleRecords(event.Records, 1, <<>>)
             ELSE [raised |-> ProcessVideoGenerationJob(event.job),
                   log |-> << [record |-> 0, did |-> "processed",
                               raised |-> ProcessVideoGenerationJob(event.job)] >>]
    IN [statusCode |-> IF r.raised = "none" THEN 200 ELSE 500,
        success |-> r.raised = "none",
        error |-> r.raised,
        raised |-> "none",
        log |-> r.log]

\* the worker Lambda is invoked with an event
HandlerCall(event) ==
    /\ stg = NoCall
    /\ stg' = [op |-> "worker_handler", event |-> event, out |-> WorkerHandler(event)]
    /\ UNCHANGED <<store, queue, payload, artifact, nextId, dequeued, wk, ttl, expired,
                   response, aws, opResult, workdir>>

\* the response is handed back and the Lambda waits for the next event
HandlerReturn ==
    /\ stg # NoCall
    /\ stg.op = "worker_handler"
    /\ stg' = NoCall
    /\ UNCHANGED <<store, queue, payload, artifact, nextId, dequeued, wk, ttl, expired,
                   response, aws, opResult, workdir>>

HandlerNext ==
    \/ \E event \in Events : HandlerCall(event)
    \/ HandlerReturn

HandlerSpec == Init /\ [][HandlerNext]_vars

\* ---------------------------------------------------------------- properties
IsPrefix(s, t) == Len(s) <= Len(t) /\ \A i \in 1..Len(s) : s[i] = t[i]

StageIndex(s) == CHOOSE i \in 1..Len(StageOrder) : StageOrder[i] = s

\* C1: one execution of generate_onboarding_video writes at most one terminal
\* status (completed or failed) to the job record, never failed after completed.
C1_AtMostOneTerminalWrite ==
    \A w \in Workers : Len(wk[w].termWrites) <= 1

\* C2: terminal states are absorbing: once a record's status is completed or
\* failed, no later step changes the status.
C2_TerminalAbsorbing ==
    [][\A j \in JobIds :
          store[j]["status"] \in Terminal => store'[j]["status"] = store[j]["status"]]_vars

\* C3: every job whose descriptor was dequeued by a worker eventually has its
\* record in a terminal status.
C3_EventuallyTerminal ==
    \A j \in JobIds : (j \in dequeued) ~> (store[j]["status"] \in Terminal)

\* C4: video_url and error_message are never both set in a job record.
C4_UrlErrorExclusive ==
    \A j \in JobIds : ~(IsSet(store[j]["video_url"]) /\ IsSet(store[j]["error_message"]))

\* C5: completed_at is set if and only if the record's status is terminal.
C5_CompletedAtIffTerminal ==
    \A j \in JobIds :
        Exists(j) => (IsSet(store[j]["completed_at"]) <=> store[j]["status"] \in Terminal)

\* C6: within one execution the stages run in the order script, narration,
\* visual, compose, each at most once and only after the previous one
\* returned; after a stage raised no later stage is attempted.
C6_StagesInOrder ==
    \A w \in Workers :
        /\ IsPrefix(wk[w].stageLog, StageOrder)
        /\ wk[w].pc \in Stages => Len(wk[w].stageLog) = StageIndex(wk[w].pc) - 1
        /\ wk[w].failStage # "none" =>
              /\ wk[w].stageLog # <<>>
              /\ wk[w].stageLog[Len(wk[w].stageLog)] = wk[w].failStage
        /\ wk[w].exc # None => wk[w].pc \in {"except", "finished"}

C6_Witness ==
    \E w \in Workers :
        /\ wk[w].pc = "finished"
        /\ wk[w].failStage = "narration"
        /\ wk[w].stageLog = <<"script", "narration">>

\* C7: the record is written as processing before any stage starts; no stage
\* runs while the record still reads queued.
C7_ProcessingBeforeStages ==
    \A w \in Workers :
        (wk[w].pc \in Stages \/ wk[w].stageLog # <<>>) =>
            /\ wk[w].procWritten
            /\ store[wk[w].job_id]["status"] \in {"processing", "completed", "failed"}

C7_Witness ==
    \E w \in Workers :
        /\ wk[w].pc = "script"
        /\ store[wk[w].job_id]["status"] = "processing"

\* C8: a record is completed only after the compose stage returned the
\* artifact for the job, and the completed write sets video_url and
\* completed_at together; no record is completed without a video_url.
C8_CompletedAfterCompose ==
    /\ \A j \in JobIds :
          store[j]["status"] = "completed" =>
              /\ artifact[j]
              /\ store[j]["video_url"] = VideoUrl(j)
              /\ IsSet(store[j]["completed_at"])
    /\ \A w \in Workers :
          Len(wk[w].termWrites) > 0 /\ wk[w].termWrites[1] = "completed" =>
              /\ wk[w].video_path # None
              /\ wk[w].stageLog = StageOrder

C8_Witness ==
    \E w \in Workers :
        /\ wk[w].pc = "notify"
        /\ store[wk[w].job_id]["status"] = "completed"

\* C9: whenever a stage raises, the record becomes failed with a non-empty
\* error_message; no record is in status failed without an error_message.
C9_FailedHasErrorMessage ==
    /\ \A j \in JobIds :
          store[j]["status"] = "failed" => IsSet(store[j]["error_message"])
    /\ \A w1, w2 \in Workers :
          (/\ wk[w1].pc = "finished" /\ wk[w2].pc = "finished"
           /\ wk[w1].failStage # "none" /\ wk[w2].failStage # "none"
           /\ store[wk[w1].job_id]["status"] = "failed"
           /\ store[wk[w2].job_id]["status"] = "failed"
           /\ store[wk[w1].job_id]["error_message"] = store[wk[w2].job_id]["error_message"])
          => wk[w1].failStage = wk[w2].failStage

\* C10: when a stage raises, the failure notification is invoked exactly once
\* in that execution, after the failed write and before the error propagates.
C10_FailureNotifiedOnce ==
    \A w \in Workers :
        (wk[w].pc = "finished" /\ wk[w].outcome = "raised" /\ wk[w].failStage # "none")
            => wk[w].errNotified = 1

\* C11: on a fully successful execution the success notification is invoked
\* exactly once, with the artifact URL, after the record was written as
\* completed with that URL; it is never invoked in an execution where a stage
\* failed.
C11_SuccessNotifiedOnce ==
    \A w \in Workers :
        /\ wk[w].okNotified <= 1
        /\ (wk[w].pc = "finished" /\ wk[w].outcome = "returned") => wk[w].okNotified = 1
        /\ wk[w].okNotified = 1 =>
              /\ wk[w].failStage = "none"
              /\ wk[w].stageLog = StageOrder
              /\ wk[w].termWrites # <<>>
              /\ wk[w].termWrites[1] = "completed"
              /\ wk[w].notifiedUrl = VideoUrl(wk[w].job_id)
        /\ wk[w].failStage # "none" => wk[w].okNotified = 0

C11_Witness ==
    \E w \in Workers :
        /\ wk[w].pc = "finished"
        /\ wk[w].outcome = "returned"
        /\ wk[w].okNotified = 1
        /\ store[wk[w].job_id]["video_url"] = wk[w].notifiedUrl

\* C12: notification failure never fails the job: after the completed write,
\* whatever happens in the notification step, the record stays completed and
\* the worker function returns its success result without raising.
C12_NotificationNeverFailsJob ==
    \A w \in Workers :
        (wk[w].termWrites # <<>> /\ wk[w].termWrites[1] = "completed") =>
            /\ wk[w].pc \in {"notify", "finished"}
            /\ wk[w].pc = "finished" =>
                  /\ wk[w].outcome = "returned"
                  /\ store[wk[w].job_id]["status"] = "completed"

\* number of descriptors of job j waiting on the queue
Occurrences(q, j) == Cardinality({i \in 1..Len(q) : q[i] = j})

IntakeReturnsId(j) ==
    /\ response[j] = NoResponse
    /\ response'[j].job_id # None

Dequeues(w) == wk[w].pc = "idle" /\ wk'[w].pc = "update_processing"

\* C14 (as stated): when intake returns a job id, the record exists with
\* status queued and exactly one descriptor with the employee attributes is on
\* the queue, no worker having moved; a worker never dequeues a descriptor
\* whose record does not exist.
C14_RecordBeforeDescriptor ==
    [][/\ \A j \in JobIds :
            IntakeReturnsId(j) =>
                /\ store'[j]["status"] = "queued"
                /\ Occurrences(queue', j) = 1
                /\ payload'[j] \in Employees
                /\ wk' = wk
       /\ \A w \in Workers :
            Dequeues(w) => store'[wk'[w].job_id] # NoRecord]_vars

\* C14 (amended): as above, but at dequeue the record exists unless the store
\* has deleted it on expiry of its retention window.
C14_RecordBeforeDescriptorUnlessExpired ==
    [][/\ \A j \in JobIds :
            IntakeReturnsId(j) =>
                /\ store'[j]["status"] = "queued"
                /\ Occurrences(queue', j) = 1
                /\ payload'[j] \in Employees
                /\ wk' = wk
       /\ \A w \in Workers :
            Dequeues(w) =>
                \/ store'[wk'[w].job_id] # NoRecord
                \/ wk'[w].job_id \in expired']_vars

C14_Witness ==
    \E w \in Workers :
        /\ wk[w].pc = "update_processing"
        /\ response[wk[w].job_id].job_id = ToString(wk[w].job_id)
        /\ store[wk[w].job_id]["status"] = "queued"

\* C15: the user-onboarding endpoint never answers success without a job
\* identifier: a failure of the store or of the queue during intake is
\* surfaced to the requester.
C15_NoSuccessWithoutJobId ==
    \A j \in JobIds : response[j].success => response[j].job_id # None

\* the value of a field as last written, None for a field never written
Written(j, f) == IF store[j][f] = Absent THEN None ELSE store[j][f]

\* C16: the status lookup returns status, created_at, completed_at, video_url
\* and error_message exactly as last written when the record exists, and
\* not-found (404) when no record exists.
C16_LookupReturnsRecord ==
    \A j \in JobIds :
        IF Exists(j)
        THEN /\ GetJobStatus(j).status_code = 200
             /\ \A f \in {"status", "created_at", "completed_at", "video_url",
                          "error_message"} : GetJobStatus(j)[f] = Written(j, f)
        ELSE GetJobStatus(j).status_code = 404

\* C17: creating a record for an identifier that already has one fails with a
\* duplicate-job error and leaves the existing record unchanged.
C17_CreateRejectsDuplicate ==
    [][\A j \in JobIds :
          (Exists(j) /\ \E e \in EmployeeIds : StoreJobCall(j, e)) =>
              /\ store'[j] = store[j]
              /\ opResult' = "DuplicateJobError"]_vars

\* a step in which worker w calls _update_job_status and the call returns
WorkerWrites(w) ==
    /\ wk[w].pc \in {"update_processing", "update_completed", "except"}
    /\ wk'[w].pc \in {"construct", "notify", "finished"}
    /\ wk'[w].pc = "finished" => Len(wk'[w].termWrites) = Len(wk[w].termWrites) + 1

\* C18: a status update for a job whose record is absent or has expired fails
\* with a not-found error and creates no record.
C18_UpdateRejectsMissing ==
    [][\A w \in Workers :
          (wk[w].pc \in {"update_processing", "update_completed", "except"}
           /\ wk'[w] # wk[w] /\ wk'[w].pc # "idle"
           /\ ~Exists(wk[w].job_id)) =>
              /\ store'[wk[w].job_id] = NoRecord
              /\ ~WorkerWrites(w)]_vars

\* C19: every write to a job record, the create at intake and each status
\* update of the worker, resets the record's TTL to the full retention window.
C19_WriteRefreshesTtl ==
    [][/\ \A j \in JobIds :
            IntakeReturnsId(j) => ttl'[j] = Retention
       /\ \A w \in Workers :
            WorkerWrites(w) => ttl'[wk[w].job_id] = Retention]_vars

C20_OneExecutionPerJob ==
    \A w1, w2 \in Workers :
        (/\ w1 # w2
         /\ wk[w1].pc \notin {"idle", "finished"}
         /\ wk[w2].pc \notin {"idle", "finished"}) => wk[w1].job_id # wk[w2].job_id

\* C21: when a worker execution ends, on success and on failure alike, the
\* working directory TEMP_DIR/{job_id} no longer exists by the time the worker
\* takes its next job.
C21_WorkDirRemoved ==
    [][\A w \in Workers :
          (wk[w].pc = "finished" /\ wk'[w].pc = "idle") =>
              ~workdir'[wk[w].job_id]]_vars

C29_NeverBackToQueued ==
    [][\A j \in JobIds :
          store'[j]["status"] = "queued" =>
              \/ store[j]["status"] = "queued"
              \/ ~Exists(j) /\ nextId' # nextId]_vars

C29_Witness ==
    \E w \in Workers :
        /\ wk[w].pc = "construct"
        /\ wk[w].before = "other"
        /\ IsSet(store[wk[w].job_id]["error_message"])
        /\ store[wk[w].job_id]["status"] = "processing"

\* C30: a record with status completed has video_url /videos/{job_id}.mp4 and
\* the artifact exists at OUTPUT_DIR/{job_id}.mp4, also while a redelivered
\* execution of the job is in progress.
C30_CompletedHasArtifact ==
    \A j \in JobIds :
        store[j]["status"] = "completed" =>
            /\ store[j]["video_url"] = VideoUrl(j)
            /\ artifact[j]

C30_Witness ==
    \E w \in Workers :
        /\ wk[w].pc = "update_processing"
        /\ wk[w].before = "completed_once"
        /\ store[wk[w].job_id]["status"] = "completed"
        /\ artifact[wk[w].job_id]

\* C23: every entry returned by the script parser has speaker host1 or host2;
\* a line whose label is none of alex/host1/speaker1/jordan/host2/speaker2 is
\* dropped.
C23_SpeakersCanonical ==
    stg.op = "parse" =>
        \A i \in 1..Len(stg.script) :
            stg.script[i].speaker \in {<<"host1">>, <<"host2">>}

\* C24: the narration stage called with an empty script still produces the
\* final audio artifact and returns its path without raising.
C24_EmptyScriptNarrated ==
    (stg.op = "audio" /\ stg.clips = <<>>) =>
        /\ stg.out.raised = "none"
        /\ stg.out.path = "final_audio.mp3"

RECURSIVE SumSeq(_)
SumSeq(q) == IF q = <<>> THEN 0 ELSE Head(q) + SumSeq(Tail(q))

\* C25: the narration of a script of n entries is the clips in script order,
\* each followed by one silence of 500 ms, so its duration is the sum of the
\* clip durations plus n * 500 ms.
C25_NarrationDuration ==
    (stg.op = "audio" /\ stg.out.raised = "none") =>
        /\ stg.out.ms = SumSeq(stg.clips) + Len(stg.clips) * PauseMs
        /\ Len(stg.out.layout) = 2 * Len(stg.clips)
        /\ \A i \in 1..Len(stg.out.layout) :
              stg.out.layout[i] = IF i % 2 = 1 THEN "clip" ELSE "pause"

C25_Witness ==
    /\ stg.op = "audio"
    /\ stg.out.raised = "none"
    /\ Len(stg.clips) = MaxClips
    /\ stg.out.ms = SumSeq(stg.clips) + MaxClips * PauseMs

\* C26: the visual stage, when it succeeds, returns exactly the five slides
\* welcome, role/team, tech stack, schedule, closing as slide_1 .. slide_5; if
\* creating a slide raises, the stage raises and returns no partial list.
C26_FiveSlidesOrNone ==
    stg.op = "slides" =>
        /\ stg.out.raised = "none" <=>
              (stg.failAt = 0 /\ ~SlideOneRaises(stg.name))
        /\ stg.out.raised = "none" =>
              /\ Len(stg.out.returned) = Len(SlideKinds)
              /\ \A i \in 1..Len(SlideKinds) :
                    stg.out.returned[i] = [file |-> SlideFile(i), kind |-> SlideKinds[i]]
        /\ stg.out.raised # "none" => stg.out.returned = <<>>

C26_Witness ==
    /\ stg.op = "slides"
    /\ stg.out.raised = "none"
    /\ Len(stg.out.returned) = 5
    /\ stg.out.returned[5].file = "slide_5.png"

\* C27: the compose stage gives every slide the same duration
\* d = narration_duration / slide_count, and d * slide_count equals the
\* narration duration within rounding tolerance.
C27_SlideDurations ==
    stg.op = "compose" =>
        LET d == stg.out.durations[1]
            total == stg.audio_ms * UsPerMs
        IN /\ Len(stg.out.durations) = stg.slide_count
           /\ \A i \in 1..stg.slide_count : stg.out.durations[i] = d
           /\ total - d * stg.slide_count >= 0
           /\ total - d * stg.slide_count < stg.slide_count
           /\ (stg.audio_ms = 100 * MsPerSecond /\ stg.slide_count = 2)
                 => d = 50 * MsPerSecond * UsPerMs

C27_Witness ==
    /\ stg.op = "compose"
    /\ stg.slide_count = 5
    /\ stg.audio_ms = 2900
    /\ stg.out.durations[5] = 580000

\* C28: if the encoder exits with a non-zero code, the compose stage raises an
\* error carrying the encoder's diagnostic output and neither creates nor
\* replaces the artifact at the public location.
C28_EncoderFailureKeepsArtifact ==
    (stg.op = "compose" /\ stg.exit_code # 0) =>
        /\ stg.out.raised = "CalledProcessError"
        /\ stg.out.stderr = stg.stderr
        /\ stg.out.artifact = stg.existing

C28_Witness ==
    /\ stg.op = "compose"
    /\ stg.exit_code = 1
    /\ stg.existing = "old"
    /\ stg.out.artifact = "old"
    /\ stg.out.raised = "CalledProcessError"

\* a line that gives an entry: it has a colon and something other than blanks
\* after the first one
GivesEntry(raw) ==
    \E c \in 1..Len(raw) :
        /\ raw[c] = ":"
        /\ \A k \in 1..(c - 1) : raw[k] # ":"
        /\ \E k \in (c + 1)..Len(raw) : raw[k] # " "

\* what follows the first colon of a line, without the blanks around it
TextAfterColon(raw) == Strip(SubSeq(raw, FirstColon(raw) + 1, Len(raw)))

\* C31: the parser gives no entry for a line without a colon and none for a
\* line with nothing but blanks after its first colon; the other lines give
\* one entry each, in the order of the input, whose text is what follows the
\* first colon with the blanks around it removed
C31_ParserKeepsLinesInOrder ==
    stg.op = "parse" =>
        LET kept == SelectSeq(stg.lines, GivesEntry)
        IN /\ Len(stg.script) = Len(kept)
           /\ \A i \in 1..Len(kept) : stg.script[i].text = TextAfterColon(kept[i])

\* a response whose first line has an empty text and whose second has a
\* second colon in its text
C31_Witness ==
    /\ stg.op = "parse"
    /\ stg.lines = << <<"host1", ":", " ">>, <<"Speaker2", ":", "hi", ":", "hi">> >>
    /\ stg.script = << [speaker |-> <<"host2">>, text |-> <<"hi", ":", "hi">>] >>

\* C32: the request to the speech service carries the voice configured for
\* the entry's speaker: Algenib for host1, Aoede for host2; a speaker key that
\* is neither of the two is spoken with the voice of host1, and the lookup of
\* its voice does not fail
C32_VoiceOfSpeaker ==
    stg.op = "synthesize" =>
        /\ stg.out.request.voice.name =
               IF stg.speaker = <<"host2">> THEN "en-US-Chirp3-HD-Aoede"
               ELSE "en-US-Chirp3-HD-Algenib"
        /\ stg.out.request.voice.ssml_gender =
               IF stg.speaker = <<"host2">> THEN "FEMALE" ELSE "MALE"
        /\ stg.out.request.input = stg.text
        /\ stg.out.raised \in {"none", "ServiceError"}

\* an entry of a speaker that has no voice was spoken and written
C32_Witness ==
    /\ stg.op = "synthesize"
    /\ stg.speaker = <<"narrator">>
    /\ stg.out.raised = "none"
    /\ stg.out.written
    /\ stg.out.request.voice = Voices[<<"host1">>]

\* C33: the schedule slide of a schedule of n items shows min(5, n) items,
\* the first ones in the order of the input, each as "time - activity"; the
\* items after the fifth are left out and the slide is still made
C33_ScheduleFirstFive ==
    stg.op = "schedule" =>
        LET n == Len(stg.first_day_schedule)
            drawn == stg.out.items
        IN /\ Len(drawn) = IF n < 5 THEN n ELSE 5
           /\ \A i \in 1..Len(drawn) :
                 drawn[i].text = << stg.first_day_schedule[i].time, " - ",
                                    stg.first_day_schedule[i].activity >>
           /\ stg.out.saved

\* a schedule of more than five items was drawn
C33_Witness ==
    /\ stg.op = "schedule"
    /\ Len(stg.first_day_schedule) > 5
    /\ Len(stg.out.items) = 5
    /\ stg.out.saved

\* the positions of the -i options of a command line
InputOptions(cmd) == {p \in 1..Len(cmd) : cmd[p] = "-i"}

\* the file of the k-th input of a command line, counted from 0 as the
\* encoder counts its inputs
InputFile(cmd, k) ==
    LET p == CHOOSE q \in InputOptions(cmd) :
                 Cardinality({r \in InputOptions(cmd) : r < q}) = k
    IN cmd[p + 1]

\* the argument that follows the option opt
OptionValues(cmd, opt) == {cmd[p + 1] : p \in {q \in 1..(Len(cmd) - 1) : cmd[q] = opt}}

\* C34: for n slides the encoder command has n + 1 inputs: the slides in
\* their order, each read with -loop 1 and -t of the duration of one slide,
\* and after them the narration, whose sound is mapped as input n; the
\* concat filter joins n inputs and -shortest is given
C34_EncoderCommand ==
    stg.op = "compose" =>
        LET n == stg.slide_count
            cmd == stg.out.cmd
            d == ToString(stg.out.durations[1])
        IN /\ Cardinality(InputOptions(cmd)) = n + 1
           /\ \A k \in 0..(n - 1) :
                 /\ InputFile(cmd, k) = SlideFile(k + 1)
                 /\ SubSeq(cmd, 3 + 6 * k, 7 + 6 * k) = <<"-loop", "1", "-t", d, "-i">>
           /\ InputFile(cmd, n) = "final_audio.mp3"
           /\ OptionValues(cmd, "-filter_complex")
                  = {"concat=n=" \o ToString(n) \o ":v=1:a=0,fps=30[v]"}
           /\ OptionValues(cmd, "-map") = {"[v]", ToString(n) \o ":a"}
           /\ \E p \in 1..Len(cmd) : cmd[p] = "-shortest"
           /\ cmd[Len(cmd)] = "slides.mp4"

\* the command for the five slides of a video and a narration of 2.9 seconds
C34_Witness ==
    /\ stg.op = "compose"
    /\ stg.slide_count = Len(SlideKinds)
    /\ stg.audio_ms = 2900
    /\ stg.exit_code = 0
    /\ Cardinality(InputOptions(stg.out.cmd)) = 6
    /\ InputFile(stg.out.cmd, 5) = "final_audio.mp3"
    /\ "5:a" \in OptionValues(stg.out.cmd, "-map")

\* C35: an execution of generate_onboarding_video or of
\* generate_onboarding_video_aws in which a stage, or any other step inside
\* the function's try block, raised ends by raising to
\* its caller and never by returning a result, whatever became of the write
\* of the failure and of the failure notification
C35_StageFailureRaises ==
    /\ \A w \in Workers :
          (wk[w].pc = "finished" /\ wk[w].failStage # "none") =>
              wk[w].outcome = "raised"
    /\ (aws.pc = "finished" /\ aws.failStage # "none") => aws.outcome = "raised"

\* both functions have ended after a failed stage, the serverless one with a
\* failure notification that was not sent
C35_Witness ==
    /\ wk[SingleWorker].pc = "finished"
    /\ wk[SingleWorker].failStage \in Stages
    /\ wk[SingleWorker].outcome = "raised"
    /\ aws.pc = "finished"
    /\ aws.failStage \in Stages
    /\ aws.errSent = "False"
    /\ aws.outcome = "raised"

\* C36: every record in the store carries the fields intake wrote,
\* employee_id and created_at; a record made of worker-written fields only
\* never exists
C36_RecordsComplete ==
    \A j \in JobIds :
        Exists(j) => /\ IsSet(store[j].employee_id)
                     /\ IsSet(store[j].created_at)
                     /\ IsSet(store[j].job_id)

\* C37: a record with status queued has its descriptor on the queue or
\* already handed to a worker; an intake that stored the record and then
\* failed leaves no queued record without a descriptor
C37_QueuedHasDescriptor ==
    \A j \in JobIds :
        (Exists(j) /\ store[j].status = "queued") => (InQueue(j) \/ j \in dequeued)

\* C38: no step of generate_onboarding_video_aws writes the job record: the
\* store and the expiry of every key are the same after the step as before,
\* whatever the input and the outcome; the record of a job that no RQ worker
\* was given is still as intake wrote it, with status queued
C38_AwsLeavesRecord ==
    /\ [][aws' # aws => (store' = store /\ ttl' = ttl)]_vars
    /\ [](\A j \in JobIds :
             (Exists(j) /\ j \notin dequeued) => store[j].status = "queued")

\* the serverless worker has returned for a job that has a record and that no
\* RQ worker was given
C38_Witness ==
    /\ aws.statusCode = 200
    /\ Exists(1)
    /\ store[1].status = "queued"
    /\ 1 \notin dequeued
    /\ queue = <<1>>

\* the records of the event that were handed to process_video_generation_job
\* and came back without an exception
Processed(out) ==
    {out.log[k].record : k \in {q \in 1..Len(out.log) :
                                   out.log[q].did = "processed" /\ out.log[q].raised = "none"}}

\* the records of the event the loop reached
Reached(out) == {out.log[k].record : k \in 1..Len(out.log)}

\* the records at which an exception was raised
Failed(out) ==
    {out.log[k].record : k \in {q \in 1..Len(out.log) : out.log[q].raised # "none"}}

\* C39: worker_handler never raises; it answers 200 only if every record of
\* the event was processed without error; if a record fails it answers 500
\* and the records after that one are not processed
C39_OkOnlyIfAllProcessed ==
    (stg.op = "worker_handler" /\ stg.event.has_records) =>
        LET out == stg.out
            n == Len(stg.event.Records)
        IN /\ out.raised = "none"
           /\ out.statusCode = 200 => Processed(out) = 1..n
           /\ Failed(out) # {} =>
                 /\ out.statusCode = 500
                 /\ \A i \in Failed(out) : \A later \in (i + 1)..n : later \notin Reached(out)

\* C39 (amended): worker_handler never raises; it answers 200 exactly when
\* no record raised, and then every record with eventSource aws:sqs was
\* processed and every other record was passed over unprocessed; when a
\* record raises it answers 500 with the text of the exception, and the
\* records after that one are not reached; invoked with a job descriptor
\* instead of records, it answers 200 when the job returned and 500 otherwise
C39_OkOnlyIfNoRecordFailed ==
    /\ (stg.op = "worker_handler" /\ ~stg.event.has_records) =>
          /\ stg.out.raised = "none"
          /\ stg.out.statusCode = IF Failed(stg.out) = {} THEN 200 ELSE 500
    /\ (stg.op = "worker_handler" /\ stg.event.has_records) =>
        LET out == stg.out
            recs == stg.event.Records
            n == Len(recs)
            sqs == {i \in 1..n : recs[i].eventSource = "aws:sqs"}
        IN /\ out.raised = "none"
           /\ out.statusCode \in {200, 500}
           /\ out.statusCode = 200 <=> Failed(out) = {}
           /\ out.statusCode = 200 =>
                 /\ Processed(out) = sqs
                 /\ Reached(out) = 1..n
                 /\ out.success
           /\ out.statusCode = 500 =>
                 /\ \E i \in sqs : /\ Failed(out) = {i}
                                   /\ Reached(out) = 1..i
                                   /\ Processed(out) = {k \in sqs : k < i}
                 /\ out.error # "none"
                 /\ ~out.success

\* a batch of three: a record of another source, a job that raises, and a
\* job that would have run
C39_Witness ==
    /\ stg.op = "worker_handler"
    /\ stg.event.has_records
    /\ stg.event.Records = << [eventSource |-> "aws:s3", body |-> JobOk],
                              [eventSource |-> "aws:sqs", body |-> JobRaises],
                              [eventSource |-> "aws:sqs", body |-> JobOk] >>
    /\ stg.out.statusCode = 500
    /\ Reached(stg.out) = {1, 2}
    /\ Processed(stg.out) = {}

====
